---- MODULE Spec2Model ----
(***************************************************************************)
(* Model of the sharding proof of concept (src/sharding-poc/main.go) and   *)
(* of the schema script that bootstraps every shard                        *)
(* (src/sharding-poc/init_db.sql).                                         *)
(*                                                                         *)
(* The state is the two PostgreSQL backends (their users table and whether *)
(* they answer), the ShardManager built by NewShardManager, the last       *)
(* response of the single-shard handlers getUser and createUser, and the   *)
(* position and local variables of every listAllUsers call in flight.      *)
(***************************************************************************)
EXTENDS Integers, Sequences, FiniteSets, TLC

\* ------------------------------------------------------------------ bounds
MaxNeg == 2          \* request keys range down to -MaxNeg
MaxNew == 11         \* request keys above the sample data range up to MaxNew
MaxInserts == 2      \* successful INSERTs issued through createUser
MaxRequests == 2     \* HTTP requests accepted by the server
NumCalls == 2        \* listAllUsers calls that may be in flight together
MaxOps == 3          \* the -operations flag ranges over -1 .. MaxOps
MaxConc == 2         \* the -concurrency flag ranges over -1 .. MaxConc
NumPosts == 2        \* createUser handlers that may be in flight together

\* --------------------------------------------------------- program constants
NumShards == 2       \* NewShardManager builds []*sql.DB{shard0, shard1}

ShardIds == 0 .. (NumShards - 1)
CallIds == 1 .. NumCalls

\* ------------------------------------------------------------------- values
\* type User struct; created_at is a logical timestamp, 0 is Go's zero value
User(id, name, email, createdAt) ==
    [user_id |-> id, name |-> name, email |-> email, created_at |-> createdAt]

NoUser == User(0, "", "", 0)

\* Go's integer remainder: truncated division, the result has the sign of a
GoRem(a, n) == IF a >= 0 THEN a % n ELSE 0 - ((0 - a) % n)

\* strconv.Itoa on the keys the model sends, as a sequence of characters
Digit(d) == <<"0", "1", "2", "3", "4", "5", "6", "7", "8", "9">>[d + 1]

RECURSIVE ItoaNat(_)
ItoaNat(n) == IF n < 10 THEN <<Digit(n)>> ELSE ItoaNat(n \div 10) \o <<Digit(n % 10)>>

Itoa(k) == IF k < 0 THEN <<"-">> \o ItoaNat(0 - k) ELSE ItoaNat(k)

DigitVal(c) == CHOOSE d \in 0 .. 9 : Digit(d) = c

IsDigit(c) == \E d \in 0 .. 9 : Digit(d) = c

RECURSIVE AtoiNat(_)
AtoiNat(s) == IF Len(s) = 0 THEN 0
              ELSE 10 * AtoiNat(SubSeq(s, 1, Len(s) - 1)) + DigitVal(s[Len(s)])

\* strconv.Atoi: an optional sign, then at least one digit and digits only
Atoi(s) ==
    LET signed == Len(s) > 0 /\ s[1] \in {"-", "+"}
        body == IF signed THEN Tail(s) ELSE s
        ok == Len(body) > 0 /\ \A i \in 1 .. Len(body) : IsDigit(body[i])
    IN  [ok |-> ok,
         val |-> IF ~ok THEN 0
                 ELSE IF signed /\ s[1] = "-" THEN 0 - AtoiNat(body)
                 ELSE AtoiNat(body)]

\* ------------------------------------------------- the users table of a shard
\* init_db.sql: user_id is the PRIMARY KEY, email is UNIQUE
Conflicts(tbl, id, email) == \E r \in tbl : r.user_id = id \/ r.email = email

\* the same INSERT with its columns bound in the wrong order
InsertUser_swapped(tbl, id, name, email, t) ==
    IF Conflicts(tbl, id, email)
    THEN [ok |-> FALSE, tbl |-> tbl, row |-> NoUser, err |-> "duplicate key"]
    ELSE [ok |-> TRUE, tbl |-> tbl \cup {User(id, email, name, t)},
          row |-> User(id, email, name, t), err |-> ""]

\* the same INSERT as an upsert: ON CONFLICT (user_id) DO UPDATE
InsertUser_upsert(tbl, id, name, email, t) ==
    [ok |-> TRUE,
     tbl |-> {r \in tbl : r.user_id # id} \cup {User(id, name, email, t)},
     row |-> User(id, name, email, t), err |-> ""]

\* the same INSERT into a table declared without PRIMARY KEY (user_id)
InsertUser_noPrimaryKey(tbl, id, name, email, t) ==
    [ok |-> TRUE, tbl |-> tbl \cup {User(id, name, email, t)},
     row |-> User(id, name, email, t), err |-> ""]

\* INSERT INTO users (user_id, name, email) VALUES (...) of one row at time t:
\* created_at takes its DEFAULT CURRENT_TIMESTAMP; a conflict is an error
InsertUser(tbl, id, name, email, t) ==
    IF \E r \in tbl : r.user_id = id
    THEN [ok |-> FALSE, tbl |-> tbl, row |-> NoUser, err |-> "duplicate key users_pkey"]
    ELSE IF Conflicts(tbl, id, email)
    THEN [ok |-> FALSE, tbl |-> tbl, row |-> NoUser, err |-> "duplicate key users_email_key"]
    ELSE [ok |-> TRUE, tbl |-> tbl \cup {User(id, name, email, t)},
          row |-> User(id, name, email, t), err |-> ""]

\* a multi-row INSERT without ON CONFLICT: one conflicting row fails the
\* whole statement and the table is left as it was
RECURSIVE InsertValues(_, _, _)
InsertValues(tbl, vals, t) ==
    IF Len(vals) = 0 THEN [ok |-> TRUE, tbl |-> tbl]
    ELSE LET one == InsertUser(tbl, vals[1][1], vals[1][2], vals[1][3], t)
         IN  IF ~one.ok THEN [ok |-> FALSE, tbl |-> tbl]
             ELSE LET rest == InsertValues(one.tbl, Tail(vals), t)
                  IN  IF rest.ok THEN rest ELSE [ok |-> FALSE, tbl |-> tbl]

\* a multi-row INSERT ... ON CONFLICT DO NOTHING: conflicting rows are skipped
RECURSIVE InsertValuesOnConflictDoNothing(_, _, _)
InsertValuesOnConflictDoNothing(tbl, vals, t) ==
    IF Len(vals) = 0 THEN tbl
    ELSE InsertValuesOnConflictDoNothing(
             InsertUser(tbl, vals[1][1], vals[1][2], vals[1][3], t).tbl,
             Tail(vals), t)

\* SELECT ... FROM users WHERE user_id = $1
SelectUser(tbl, id) == {r \in tbl : r.user_id = id}

\* SELECT ... FROM users ORDER BY user_id, as the sequence of rows read
RECURSIVE SelectAllUsers(_)
SelectAllUsers(tbl) ==
    IF tbl = {} THEN <<>>
    ELSE LET first == CHOOSE r \in tbl : \A q \in tbl : r.user_id <= q.user_id
         IN  <<first>> \o SelectAllUsers(tbl \ {first})

\* init_db.sql, lines 11-16 and 21-26: the sample rows
EvenSample ==
    << <<2, "Alice Johnson", "alice@example.com">>,
       <<4, "Bob Smith", "bob@example.com">>,
       <<6, "Carol White", "carol@example.com">>,
       <<8, "David Brown", "david@example.com">>,
       <<10, "Eve Davis", "eve@example.com">> >>

OddSample ==
    << <<1, "Frank Miller", "frank@example.com">>,
       <<3, "Grace Lee", "grace@example.com">>,
       <<5, "Henry Wilson", "henry@example.com">>,
       <<7, "Iris Moore", "iris@example.com">>,
       <<9, "Jack Taylor", "jack@example.com">> >>

\* init_db.sql run on one database at time t: CREATE TABLE IF NOT EXISTS, the
\* INSERT of the even rows, then the INSERT of the odd rows ON CONFLICT DO
\* NOTHING.  The script is the same for every shard.
InitDb(tbl, t) ==
    InsertValuesOnConflictDoNothing(InsertValues(tbl, EvenSample, t).tbl, OddSample, t)

\* ----------------------------------------------------------------- requests
\* the keys sent by clients: negative keys, zero, keys of the sample data and
\* keys above the sample data
InputKeys == ((0 - MaxNeg) .. 2) \cup (11 .. MaxNew)

\* the :userID path parameter of GET /user/:userID
Params == {Itoa(k) : k \in InputKeys} \cup {<<"a">>, <<"-">>}

Names == {"Ann", "Bob"}

Emails == {"ann@example.com", "ben@example.com"}

\* the JSON body of POST /user: malformed, or a User without created_at
Bodies == {[valid |-> FALSE, user |-> NoUser]} \cup
          {[valid |-> TRUE, user |-> User(k, n, e, 0)] :
              k \in InputKeys, n \in Names, e \in Emails}

\* ---------------------------------------------------------------------- state
VARIABLES
    pc,        \* position of main / NewShardManager
    sm,        \* sm.shards: the handles of the ShardManager, <<>> while there is none
    pinged,    \* the shards whose sql.Open and Ping succeeded during start-up
    up,        \* up[i]: backend i accepts connections and answers queries
    db,        \* db[i]: the rows of the users table of backend i
    now,       \* CURRENT_TIMESTAMP of the next INSERT
    nreq,      \* requests accepted so far
    routeLog,  \* the last "Routing userID %d to shard %d" line of the log
    touched,   \* the backends the last getUser / createUser sent its query to
    resp,      \* the last response written by getUser / createUser
    created,   \* created[k]: what the successful createUser of key k returned
    calls,     \* calls[c]: the listAllUsers call in slot c
    attempts,  \* the SQL statements the last getUser / createUser issued
    \* the connection pool benchmark (second main of main.go)
    config,    \* Config: Concurrency and Operations as parsed from the flags
    bench,     \* the benchmark function main is in: "nonpool" or "pool"
    bpc,       \* position of that function
    spawned,   \* the loop variable i: goroutines started so far
    sem,       \* number of elements in the buffer of the semaphore channel
    wg,        \* counter of the sync.WaitGroup
    mu,        \* the sync.Mutex: 0 when free, else the goroutine holding it
    errors,    \* the local errors of the benchmark function
    successful, \* the local successful of the benchmark function
    workers,   \* workers[w]: position and locals of goroutine w
    handles,   \* the *sql.DB handles opened by executeSingleOperation and not closed
    pool,      \* the ConnectionPool of benchmarkWithPool: "none", "open", "closed"
    results,   \* the BenchmarkResults returned to main so far
    \* the createUser handlers gin runs side by side
    posts      \* posts[r]: position and locals of the createUser handler in slot r

routerVars == <<pc, sm, pinged, up, db, now, nreq, routeLog, touched, resp, created, calls,
                attempts>>

benchVars == <<config, bench, bpc, spawned, sem, wg, mu, errors, successful, workers,
               handles, pool, results>>

vars == <<routerVars, benchVars, posts>>

\* gin.H of the single-shard handlers; shard_used is -1 when the body has none
\* and seq numbers the request it answers
Response(seq, op, status, key, user, shardUsed, error) ==
    [seq |-> seq, op |-> op, status |-> status, key |-> key, user |-> user,
     shard_used |-> shardUsed, error |-> error]

NoResponse == Response(0, "none", 0, 0, NoUser, 0 - 1, "")

NoRoute == [logged |-> FALSE, userID |-> 0, shardIndex |-> 0]

NoCreate == [done |-> FALSE, user |-> NoUser, shard |-> 0 - 1]

\* gin.H of listAllUsers, lines 143-147
ListBody(allUsers) ==
    [users |-> allUsers, count |-> Len(allUsers),
     routing |-> "scatter_gather_across_all_shards"]

NoBody == [users |-> <<>>, count |-> 0, routing |-> ""]

\* a listAllUsers call: its position, the loop index i, the local allUsers,
\* the shards of its "Error querying shard" log lines, the rows each shard
\* handed to it, whether the backends were left alone since it began, the
\* body it returned, and the backends' clock when it began
IdleCall ==
    [pc |-> "idle", i |-> 0, allUsers |-> <<>>, errs |-> {}, got |-> <<>>,
     quiet |-> TRUE, status |-> 0, body |-> NoBody, t0 |-> 0]

PostIds == 1 .. NumPosts

\* a createUser handler: its position, the bound user, the shard selected,
\* the err of QueryRow(...).Scan and the response written
IdlePost ==
    [pc |-> "idle", user |-> NoUser, shard |-> 0 - 1, err |-> "", resp |-> NoResponse]

\* no createUser handler is in flight
NoPosts == [r \in PostIds |-> IdlePost]

\* a goroutine of the benchmark loop that has not been started
NoWorker == [pc |-> "none", err |-> FALSE, db |-> 0, read |-> 0]

\* the benchmark program is not the one running
BenchOff ==
    /\ config = [Concurrency |-> 0, Operations |-> 0]
    /\ bench = "nonpool"
    /\ bpc = "off"
    /\ spawned = 0
    /\ sem = 0
    /\ wg = 0
    /\ mu = 0
    /\ errors = 0
    /\ successful = 0
    /\ workers = <<>>
    /\ handles = {}
    /\ pool = "none"
    /\ results = <<>>

Init ==
    /\ pc = "open0"
    /\ sm = <<>>
    /\ pinged = {}
    /\ up \in [ShardIds -> BOOLEAN]
    /\ db = [i \in ShardIds |-> InitDb({}, 1)]
    /\ now = 2
    /\ nreq = 0
    /\ routeLog = NoRoute
    /\ touched = {}
    /\ resp = NoResponse
    /\ created = [k \in InputKeys |-> NoCreate]
    /\ calls = [c \in CallIds |-> IdleCall]
    /\ attempts = 0
    /\ BenchOff
    /\ posts = NoPosts

\* ------------------------------------------------------------------ start-up
\* NewShardManager, lines 31-34: sql.Open of shard 0 (it fails on a bad DSN)
OpenShard0 ==
    /\ pc = "open0"
    /\ \E ok \in BOOLEAN : pc' = IF ok THEN "open1" ELSE "exit"
    /\ UNCHANGED <<sm, pinged, up, db, now, nreq, routeLog, touched, resp, created, calls>>
    /\ UNCHANGED <<attempts, benchVars, posts>>

\* NewShardManager, lines 36-39: sql.Open of shard 1
OpenShard1 ==
    /\ pc = "open1"
    /\ \E ok \in BOOLEAN : pc' = IF ok THEN "ping0" ELSE "exit"
    /\ UNCHANGED <<sm, pinged, up, db, now, nreq, routeLog, touched, resp, created, calls>>
    /\ UNCHANGED <<attempts, benchVars, posts>>

\* NewShardManager, lines 42-44: shard0.Ping()
PingShard0 ==
    /\ pc = "ping0"
    /\ IF up[0]
       THEN pc' = "ping1" /\ pinged' = pinged \cup {0}
       ELSE pc' = "exit" /\ pinged' = pinged
    /\ UNCHANGED <<sm, up, db, now, nreq, routeLog, touched, resp, created, calls>>
    /\ UNCHANGED <<attempts, benchVars, posts>>

\* the same step with the result of the last Ping not checked
PingShard1_unchecked ==
    /\ pc = "ping1"
    /\ pc' = "serving"
    /\ sm' = <<0, 1>>
    /\ pinged' = IF up[1] THEN pinged \cup {1} ELSE pinged
    /\ UNCHANGED <<up, db, now, nreq, routeLog, touched, resp, created, calls>>
    /\ UNCHANGED <<attempts, benchVars, posts>>

\* NewShardManager, lines 46-54, and main, lines 152-163: shard1.Ping(); on
\* success the ShardManager is returned and main registers the handlers, on
\* any error main ends the process with log.Fatalf
PingShard1 ==
    /\ pc = "ping1"
    /\ IF up[1]
       THEN pc' = "serving" /\ sm' = <<0, 1>> /\ pinged' = pinged \cup {1}
       ELSE pc' = "exit" /\ sm' = sm /\ pinged' = pinged
    /\ UNCHANGED <<up, db, now, nreq, routeLog, touched, resp, created, calls>>
    /\ UNCHANGED <<attempts, benchVars, posts>>

\* ---------------------------------------------------------------- environment
\* the backends change under, or after, the listAllUsers calls that began
Disturbed(cs) ==
    [c \in CallIds |-> IF cs[c].pc # "idle" THEN [cs[c] EXCEPT !.quiet = FALSE] ELSE cs[c]]

\* backend i stops answering
ShardDown(i) ==
    /\ up[i]
    /\ up' = [up EXCEPT ![i] = FALSE]
    /\ calls' = Disturbed(calls)
    /\ UNCHANGED <<pc, sm, pinged, db, now, nreq, routeLog, touched, resp, created>>
    /\ UNCHANGED <<attempts, benchVars, posts>>

\* backend i answers again
ShardUp(i) ==
    /\ ~up[i]
    /\ up' = [up EXCEPT ![i] = TRUE]
    /\ calls' = Disturbed(calls)
    /\ UNCHANGED <<pc, sm, pinged, db, now, nreq, routeLog, touched, resp, created>>
    /\ UNCHANGED <<attempts, benchVars, posts>>

\* ------------------------------------------------------------------- routing
\* routing that spreads keys by the number of requests seen
getShardForUser_byLoad(userID) == GoRem(userID + nreq, Len(sm))

\* routing that sends every key to the first shard
getShardForUser_first(userID) == 0

\* getShardForUser, line 59: shardIndex := userID % len(sm.shards)
getShardForUser(userID) == GoRem(userID, Len(sm))

\* line 61: sm.shards[shardIndex] panics when the index is out of range
InRange(shardIndex) == 0 <= shardIndex /\ shardIndex < Len(sm)

\* line 60: log.Printf("Routing userID %d to shard %d", userID, shardIndex)
Routed(userID, shardIndex) ==
    [logged |-> TRUE, userID |-> userID, shardIndex |-> shardIndex]

\* --------------------------------------------------------------------- getUser
\* a lookup that inserts a placeholder row when the key is missing
getUser_orCreate(param) ==
    /\ pc = "serving"
    /\ nreq < MaxRequests
    /\ nreq' = nreq + 1
    /\ Atoi(param).ok
    /\ InRange(GoRem(Atoi(param).val, Len(sm)))
    /\ LET userID == Atoi(param).val
           shard == sm[GoRem(userID, Len(sm)) + 1]
           rows == SelectUser(db[shard], userID)
       IN  /\ up[shard]
           /\ routeLog' = Routed(userID, shard)
           /\ touched' = {shard}
           /\ attempts' = 1
           /\ db' = IF rows = {}
                    THEN [db EXCEPT ![shard] = @ \cup {User(userID, "", "", now)}]
                    ELSE db
           /\ resp' = IF rows = {}
                      THEN Response(nreq + 1, "getUser", 200, userID,
                                    User(userID, "", "", now), shard, "")
                      ELSE Response(nreq + 1, "getUser", 200, userID,
                                    CHOOSE r \in rows : TRUE, shard, "")
    /\ UNCHANGED <<pc, sm, pinged, up, now, created, calls>>
    /\ UNCHANGED <<benchVars, posts>>

\* GET /user/:userID, lines 65-93.  A panic of the handler is answered by the
\* Recovery middleware of gin.Default() with status 500.
getUser(param) ==
    /\ pc = "serving"
    /\ nreq < MaxRequests
    /\ nreq' = nreq + 1
    /\ LET parsed == Atoi(param)
           userID == parsed.val
           shardIndex == getShardForUser(userID)
       IN  IF ~parsed.ok
           THEN /\ resp' = Response(nreq + 1, "getUser", 400, 0, NoUser, 0 - 1, "Invalid user ID")
                /\ touched' = {}
                /\ attempts' = 0
                /\ routeLog' = routeLog
           ELSE /\ routeLog' = Routed(userID, shardIndex)
                /\ IF ~InRange(shardIndex)
                   THEN /\ resp' = Response(nreq + 1, "getUser", 500, userID, NoUser, 0 - 1, "panic")
                        /\ touched' = {}
                        /\ attempts' = 0
                   ELSE LET shard == sm[shardIndex + 1]
                            rows == SelectUser(db[shard], userID)
                        IN  /\ touched' = {shard}
                            /\ attempts' = 1
                            /\ resp' =
                                 IF ~up[shard]
                                 THEN Response(nreq + 1, "getUser", 500, userID, NoUser, 0 - 1,
                                               "connection refused")
                                 ELSE IF rows = {}
                                 THEN Response(nreq + 1, "getUser", 404, userID, NoUser, 0 - 1,
                                               "User not found")
                                 ELSE Response(nreq + 1, "getUser", 200, userID,
                                               CHOOSE r \in rows : TRUE,
                                               GoRem(userID, Len(sm)), "")
    /\ UNCHANGED <<pc, sm, pinged, up, db, now, created, calls>>
    /\ UNCHANGED <<benchVars, posts>>

\* ------------------------------------------------------------------ createUser
\* line 106: Scan(&user.CreatedAt) of RETURNING created_at into the bound user
Scanned(user, row) == [user EXCEPT !.created_at = row.created_at]

\* the insert sent to the next shard when the selected one does not answer
createUserUnavailable_failover(user, shard) ==
    LET other == sm[((shard + 1) % Len(sm)) + 1]
        ins == InsertUser(db[other], user.user_id, user.name, user.email, now)
    IN  /\ touched' = {shard, other}
        /\ attempts' = 2
        /\ IF up[other] /\ ins.ok
           THEN /\ db' = [db EXCEPT ![other] = ins.tbl]
                /\ now' = now + 1
                /\ resp' = Response(nreq + 1, "createUser", 201, user.user_id,
                                    Scanned(user, ins.row), other, "")
                /\ UNCHANGED <<created, calls>>
           ELSE /\ resp' = Response(nreq + 1, "createUser", 500, user.user_id,
                                    NoUser, 0 - 1, "connection refused")
                /\ UNCHANGED <<db, now, created, calls>>

\* createUser, lines 106-111, when the selected shard does not answer: the one
\* QueryRow fails and its error is returned with status 500
createUserUnavailable(user, shard) ==
    /\ touched' = {shard}
    /\ attempts' = 1
    /\ resp' = Response(nreq + 1, "createUser", 500, user.user_id,
                        NoUser, 0 - 1, "connection refused")
    /\ UNCHANGED <<db, now, created, calls>>

\* POST /user, lines 96-118
createUser(body) ==
    /\ pc = "serving"
    /\ nreq < MaxRequests
    /\ nreq' = nreq + 1
    /\ now < 2 + MaxInserts
    /\ LET user == body.user
           shardIndex == getShardForUser(user.user_id)
       IN  IF ~body.valid
           THEN /\ resp' = Response(nreq + 1, "createUser", 400, 0, NoUser, 0 - 1, "bad request")
                /\ touched' = {}
                /\ attempts' = 0
                /\ UNCHANGED <<routeLog, db, now, created, calls>>
           ELSE /\ routeLog' = Routed(user.user_id, shardIndex)
                /\ IF ~InRange(shardIndex)
                   THEN /\ resp' = Response(nreq + 1, "createUser", 500, user.user_id, NoUser,
                                            0 - 1, "panic")
                        /\ touched' = {}
                        /\ attempts' = 0
                        /\ UNCHANGED <<db, now, created, calls>>
                   ELSE LET shard == sm[shardIndex + 1]
                            ins == InsertUser(db[shard], user.user_id, user.name,
                                              user.email, now)
                        IN  /\ IF ~up[shard]
                               THEN createUserUnavailable(user, shard)
                               ELSE IF ~ins.ok
                               THEN /\ touched' = {shard}
                                    /\ attempts' = 1
                                    /\ resp' = Response(nreq + 1, "createUser", 500, user.user_id,
                                                        NoUser, 0 - 1, ins.err)
                                    /\ UNCHANGED <<db, now, created, calls>>
                               ELSE /\ touched' = {shard}
                                    /\ attempts' = 1
                                    /\ db' = [db EXCEPT ![shard] = ins.tbl]
                                    /\ now' = now + 1
                                    /\ resp' = Response(nreq + 1, "createUser", 201, user.user_id,
                                                        Scanned(user, ins.row),
                                                        GoRem(user.user_id, Len(sm)), "")
                                    /\ created' = [created EXCEPT ![user.user_id] =
                                           [done |-> TRUE, user |-> Scanned(user, ins.row),
                                            shard |-> shard]]
                                    /\ calls' = Disturbed(calls)
    /\ UNCHANGED <<pc, sm, pinged, up>>
    /\ UNCHANGED <<benchVars, posts>>

\* ---------------------------------------------------------------- listAllUsers
\* the accumulator kept in one place for all calls instead of per call
AppendUsers_shared(c, rows) == calls[1].allUsers \o rows

\* the rows of a shard assigned to allUsers instead of appended
AppendUsers_overwrite(c, rows) == rows

\* the loop over rows.Next() starting one row late
AppendUsers_skipFirst(c, rows) == calls[c].allUsers \o Tail(rows)

\* lines 133-140: every row read is appended to the allUsers of this call
AppendUsers(c, rows) == calls[c].allUsers \o rows

\* GET /users is accepted, line 122: var allUsers []User.  The slots are
\* interchangeable, so a call takes the first one that is not in flight.
listAllUsersBegin(c) ==
    /\ pc = "serving"
    /\ nreq < MaxRequests
    /\ nreq' = nreq + 1
    /\ calls[c].pc # "loop"
    /\ \A d \in CallIds : d < c => calls[d].pc = "loop"
    /\ calls' = [calls EXCEPT ![c] = [IdleCall EXCEPT !.pc = "loop", !.t0 = now]]
    /\ UNCHANGED <<pc, sm, pinged, up, db, now, routeLog, touched, resp, created>>
    /\ UNCHANGED <<attempts, benchVars, posts>>

\* one turn of the loop of lines 124-141: the query of shard i; an error is
\* logged and the shard skipped, otherwise its rows are appended
listAllUsersQuery(c) ==
    /\ calls[c].pc = "loop"
    /\ calls[c].i < Len(sm)
    /\ LET i == calls[c].i
           shard == sm[i + 1]
           rows == SelectAllUsers(db[shard])
       IN  calls' = [calls EXCEPT ![c] =
               IF ~up[shard]
               THEN [@ EXCEPT !.i = i + 1, !.errs = @ \cup {i}]
               ELSE [@ EXCEPT !.i = i + 1, !.allUsers = AppendUsers(c, rows),
                              !.got = Append(@, <<i, rows>>)]]
    /\ UNCHANGED <<pc, sm, pinged, up, db, now, nreq, routeLog, touched, resp, created>>
    /\ UNCHANGED <<attempts, benchVars, posts>>

\* the call answering as soon as the first shard has been dealt with
listAllUsersRespond_first(c) ==
    /\ calls[c].pc = "loop"
    /\ calls[c].i >= 1
    /\ calls' = [calls EXCEPT ![c] =
           [@ EXCEPT !.pc = "done", !.status = 200, !.body = ListBody(calls[c].allUsers)]]
    /\ UNCHANGED <<pc, sm, pinged, up, db, now, nreq, routeLog, touched, resp, created>>
    /\ UNCHANGED <<attempts, benchVars, posts>>

\* lines 143-147: after the loop the call answers 200 with users and count
listAllUsersRespond(c) ==
    /\ calls[c].pc = "loop"
    /\ calls[c].i = Len(sm)
    /\ calls' = [calls EXCEPT ![c] =
           [@ EXCEPT !.pc = "done", !.status = 200, !.body = ListBody(calls[c].allUsers)]]
    /\ UNCHANGED <<pc, sm, pinged, up, db, now, nreq, routeLog, touched, resp, created>>
    /\ UNCHANGED <<attempts, benchVars, posts>>

\* ---------------------------------------------------------------- specification
Next ==
    \/ OpenShard0
    \/ OpenShard1
    \/ PingShard0
    \/ PingShard1
    \/ \E i \in ShardIds : ShardDown(i)
    \/ \E i \in ShardIds : ShardUp(i)
    \/ \E param \in Params : getUser(param)
    \/ \E body \in Bodies : createUser(body)
    \/ \E c \in CallIds : listAllUsersBegin(c)
    \/ \E c \in CallIds : listAllUsersQuery(c)
    \/ \E c \in CallIds : listAllUsersRespond(c)

Spec == Init /\ [][Next]_vars

\* ------------------------------------------------- connection pool benchmark
\* parseFlags, lines 334-336: flag.IntVar accepts any integer for -concurrency
\* and -operations, and nothing validates them
Configs ==
    [Concurrency : (0 - 1) .. MaxConc, Operations : (0 - 1) .. MaxOps]

\* the router is not the program running
RouterOff ==
    /\ pc = "off"
    /\ sm = <<>>
    /\ pinged = {}
    /\ up = [i \in ShardIds |-> TRUE]
    /\ db = [i \in ShardIds |-> {}]
    /\ now = 2
    /\ nreq = 0
    /\ routeLog = NoRoute
    /\ touched = {}
    /\ resp = NoResponse
    /\ created = [k \in InputKeys |-> NoCreate]
    /\ calls = [c \in CallIds |-> IdleCall]
    /\ attempts = 0
    /\ posts = NoPosts

\* main, lines 297-317: the flags are parsed, the connection test passed and
\* benchmarkNonPool is about to be called
BenchInit ==
    /\ RouterOff
    /\ config \in Configs
    /\ bench = "nonpool"
    /\ bpc = "begin"
    /\ spawned = 0
    /\ sem = 0
    /\ wg = 0
    /\ mu = 0
    /\ errors = 0
    /\ successful = 0
    /\ workers = <<>>
    /\ handles = {}
    /\ pool = "none"
    /\ results = <<>>

\* BenchmarkResult without its Duration
BenchmarkResult(e, ok, description) ==
    [Errors |-> e, Successful |-> ok, Description |-> description]

\* lines 381-389: the locals of benchmarkNonPool and make(chan struct{},
\* config.Concurrency), which panics for a negative capacity
benchmarkNonPoolBegin ==
    /\ bpc = "begin"
    /\ bench = "nonpool"
    /\ bpc' = IF config.Concurrency < 0 THEN "panic" ELSE "spawn"
    /\ UNCHANGED <<config, bench, spawned, sem, wg, mu, errors, successful, workers,
                   handles, pool, results>>
    /\ UNCHANGED <<routerVars, posts>>

\* main, line 322, and benchmarkWithPool, lines 456-475: createConnectionPool;
\* on an error the function returns Errors: 1 at once, else the locals are
\* set up as in benchmarkNonPool
benchmarkWithPoolBegin ==
    /\ bpc = "returned"
    /\ bench = "nonpool"
    /\ bench' = "pool"
    /\ \E ok \in BOOLEAN :
          IF ok
          THEN /\ pool' = "open"
               /\ bpc' = IF config.Concurrency < 0 THEN "panic" ELSE "spawn"
               /\ results' = results
          ELSE /\ pool' = pool
               /\ bpc' = "returned"
               /\ results' = Append(results, BenchmarkResult(1, 0, "Pooled connections"))
    /\ spawned' = 0
    /\ sem' = 0
    /\ wg' = 0
    /\ mu' = 0
    /\ errors' = 0
    /\ successful' = 0
    /\ workers' = <<>>
    /\ UNCHANGED <<config, handles>>
    /\ UNCHANGED <<routerVars, posts>>

\* lines 391-393 and 477-479: one turn of the loop: wg.Add(1); go func() {...}()
spawnWorker ==
    /\ bpc = "spawn"
    /\ spawned < config.Operations
    /\ spawned' = spawned + 1
    /\ wg' = wg + 1
    /\ workers' = Append(workers, [NoWorker EXCEPT !.pc = "spawned"])
    /\ UNCHANGED <<config, bench, bpc, sem, mu, errors, successful, handles, pool, results>>
    /\ UNCHANGED <<routerVars, posts>>

\* lines 391 and 477: the loop ends when i reaches config.Operations
loopExit ==
    /\ bpc = "spawn"
    /\ spawned >= config.Operations
    /\ bpc' = "wait"
    /\ UNCHANGED <<config, bench, spawned, sem, wg, mu, errors, successful, workers,
                   handles, pool, results>>
    /\ UNCHANGED <<routerVars, posts>>

\* a return that does not wait for the goroutines
benchmarkReturn_noWait ==
    /\ bpc = "wait"
    /\ bpc' = "returned"
    /\ results' = Append(results,
                         BenchmarkResult(errors, successful,
                                         IF bench = "pool" THEN "Pooled connections"
                                         ELSE "Non-pooled connections"))
    /\ pool' = IF bench = "pool" THEN "closed" ELSE pool
    /\ UNCHANGED <<config, bench, spawned, sem, wg, mu, errors, successful, workers, handles>>
    /\ UNCHANGED <<routerVars, posts>>

\* lines 413-421 and 510-518: wg.Wait() returns when the counter is zero, the
\* result is returned and the deferred pool.Close() of line 465 runs
benchmarkReturn ==
    /\ bpc = "wait"
    /\ wg = 0
    /\ bpc' = "returned"
    /\ results' = Append(results,
                         BenchmarkResult(errors, successful,
                                         IF bench = "pool" THEN "Pooled connections"
                                         ELSE "Non-pooled connections"))
    /\ pool' = IF bench = "pool" THEN "closed" ELSE pool
    /\ UNCHANGED <<config, bench, spawned, sem, wg, mu, errors, successful, workers, handles>>
    /\ UNCHANGED <<routerVars, posts>>

\* a send on the semaphore with no limit
CanSend_unbounded == TRUE

\* lines 397 and 483: semaphore <- struct{}{} proceeds while the buffer of
\* capacity config.Concurrency has room; nothing receives before a send
CanSend == sem < config.Concurrency

\* goroutine w acquires the semaphore
acquire(w) ==
    /\ workers[w].pc = "spawned"
    /\ CanSend
    /\ sem' = sem + 1
    /\ workers' = [workers EXCEPT ![w].pc = "acquired"]
    /\ UNCHANGED <<config, bench, bpc, spawned, wg, mu, errors, successful, handles, pool,
                   results>>
    /\ UNCHANGED <<routerVars, posts>>

\* executeSingleOperation, lines 430-434: sql.Open gives a handle of its own to
\* this operation, or fails
openDb(w) ==
    /\ bench = "nonpool"
    /\ workers[w].pc = "acquired"
    /\ \E ok \in BOOLEAN :
          IF ok
          THEN /\ handles' = handles \cup {w}
               /\ workers' = [workers EXCEPT ![w].pc = "opened", ![w].db = w]
          ELSE /\ handles' = handles
               /\ workers' = [workers EXCEPT ![w].pc = "finished", ![w].err = TRUE]
    /\ UNCHANGED <<config, bench, bpc, spawned, sem, wg, mu, errors, successful, pool,
                   results>>
    /\ UNCHANGED <<routerVars, posts>>

\* a handle that is left open
CloseDb_leak(hs, h) == hs

\* line 434: defer db.Close()
CloseDb(hs, h) == hs \ {h}

\* executeSingleOperation, lines 437-438: ExecContext under the 5 s timeout
\* succeeds or fails, and the deferred Close runs on return
execDb(w) ==
    /\ bench = "nonpool"
    /\ workers[w].pc = "opened"
    /\ \E err \in BOOLEAN : workers' = [workers EXCEPT ![w].pc = "finished", ![w].err = err]
    /\ handles' = CloseDb(handles, workers[w].db)
    /\ UNCHANGED <<config, bench, bpc, spawned, sem, wg, mu, errors, successful, pool,
                   results>>
    /\ UNCHANGED <<routerVars, posts>>

\* benchmarkWithPool, lines 486-498: pool.Execute under the 5 s timeout
poolExecute(w) ==
    /\ bench = "pool"
    /\ workers[w].pc = "acquired"
    /\ \E err \in BOOLEAN : workers' = [workers EXCEPT ![w].pc = "finished", ![w].err = err]
    /\ UNCHANGED <<config, bench, bpc, spawned, sem, wg, mu, errors, successful, handles,
                   pool, results>>
    /\ UNCHANGED <<routerVars, posts>>

\* a counter update that does not wait for the mutex
CanLock_noMutex == TRUE

\* mu.Lock() proceeds when no goroutine holds the mutex
CanLock == mu = 0

\* lines 402-403 and 406-407: mu.Lock() and the read of errors++ / successful++
lockAndRead(w) ==
    /\ workers[w].pc = "finished"
    /\ CanLock
    /\ mu' = w
    /\ workers' = [workers EXCEPT ![w].pc = "locked",
                                  ![w].read = IF workers[w].err THEN errors ELSE successful]
    /\ UNCHANGED <<config, bench, bpc, spawned, sem, wg, errors, successful, handles, pool,
                   results>>
    /\ UNCHANGED <<routerVars, posts>>

\* lines 403-404 and 407-408: the write of errors++ / successful++ and mu.Unlock()
writeAndUnlock(w) ==
    /\ workers[w].pc = "locked"
    /\ mu' = 0
    /\ IF workers[w].err
       THEN errors' = workers[w].read + 1 /\ successful' = successful
       ELSE successful' = workers[w].read + 1 /\ errors' = errors
    /\ workers' = [workers EXCEPT ![w].pc = "counted"]
    /\ UNCHANGED <<config, bench, bpc, spawned, sem, wg, handles, pool, results>>
    /\ UNCHANGED <<routerVars, posts>>

\* lines 398 and 484: the deferred <-semaphore runs first
release(w) ==
    /\ workers[w].pc = "counted"
    /\ sem > 0
    /\ sem' = sem - 1
    /\ workers' = [workers EXCEPT ![w].pc = "released"]
    /\ UNCHANGED <<config, bench, bpc, spawned, wg, mu, errors, successful, handles, pool,
                   results>>
    /\ UNCHANGED <<routerVars, posts>>

\* lines 394 and 480: the deferred wg.Done() runs last
wgDone(w) ==
    /\ workers[w].pc = "released"
    /\ wg' = wg - 1
    /\ workers' = [workers EXCEPT ![w].pc = "done"]
    /\ UNCHANGED <<config, bench, bpc, spawned, sem, mu, errors, successful, handles, pool,
                   results>>
    /\ UNCHANGED <<routerVars, posts>>

NextBench ==
    \/ benchmarkNonPoolBegin
    \/ benchmarkWithPoolBegin
    \/ spawnWorker
    \/ loopExit
    \/ benchmarkReturn
    \/ \E w \in DOMAIN workers : acquire(w)
    \/ \E w \in DOMAIN workers : openDb(w)
    \/ \E w \in DOMAIN workers : execDb(w)
    \/ \E w \in DOMAIN workers : poolExecute(w)
    \/ \E w \in DOMAIN workers : lockAndRead(w)
    \/ \E w \in DOMAIN workers : writeAndUnlock(w)
    \/ \E w \in DOMAIN workers : release(w)
    \/ \E w \in DOMAIN workers : wgDone(w)

SpecBench == BenchInit /\ [][NextBench]_vars

\* ------------------------------------------- createUser handlers side by side
\* gin runs every request in a goroutine of its own: the handlers share the
\* ShardManager and the backends, and each has its own user, shard and err

\* main, lines 173-199: NewShardManager has returned and r.Run is serving;
\* since the pings a backend may have stopped answering
ServingInit ==
    /\ pc = "serving"
    /\ sm = <<0, 1>>
    /\ pinged = ShardIds
    /\ up \in [ShardIds -> BOOLEAN]
    /\ db = [i \in ShardIds |-> InitDb({}, 1)]
    /\ now = 2
    /\ nreq = 0
    /\ routeLog = NoRoute
    /\ touched = {}
    /\ resp = NoResponse
    /\ created = [k \in InputKeys |-> NoCreate]
    /\ calls = [c \in CallIds |-> IdleCall]
    /\ attempts = 0
    /\ BenchOff
    /\ posts = NoPosts

\* lines 97-103: ShouldBindJSON (400 on a malformed body) and getShardForUser,
\* whose sm.shards[shardIndex] panics when the index is out of range.  The
\* slots are interchangeable, so a request takes the first free one.
createUserBind(r, body) ==
    /\ pc = "serving"
    /\ posts[r].pc = "idle"
    /\ \A d \in PostIds : d < r => posts[d].pc # "idle"
    /\ LET user == body.user
           shardIndex == getShardForUser(user.user_id)
       IN  IF ~body.valid
           THEN /\ posts' = [posts EXCEPT ![r] =
                       [@ EXCEPT !.pc = "done",
                                 !.resp = Response(r, "createUser", 400, 0, NoUser, 0 - 1,
                                                   "bad request")]]
                /\ routeLog' = routeLog
           ELSE /\ routeLog' = Routed(user.user_id, shardIndex)
                /\ posts' = [posts EXCEPT ![r] =
                       IF ~InRange(shardIndex)
                       THEN [@ EXCEPT !.pc = "done", !.user = user,
                                      !.resp = Response(r, "createUser", 500, user.user_id,
                                                        NoUser, 0 - 1, "panic")]
                       ELSE [@ EXCEPT !.pc = "routed", !.user = user,
                                      !.shard = sm[shardIndex + 1]]]
    /\ UNCHANGED <<pc, sm, pinged, up, db, now, nreq, touched, resp, created, calls, attempts>>
    /\ UNCHANGED benchVars

\* lines 105-106: shard.QueryRow(INSERT ... RETURNING created_at).Scan: the
\* backend runs the statement as one step, and on success created_at is
\* scanned into the handler's user
createUserQuery(r) ==
    /\ posts[r].pc = "routed"
    /\ LET user == posts[r].user
           shard == posts[r].shard
           ins == InsertUser(db[shard], user.user_id, user.name, user.email, now)
       IN  IF ~up[shard]
           THEN /\ posts' = [posts EXCEPT ![r] =
                       [@ EXCEPT !.pc = "scanned", !.err = "connection refused"]]
                /\ UNCHANGED <<db, now, calls>>
           ELSE IF ~ins.ok
           THEN /\ posts' = [posts EXCEPT ![r] = [@ EXCEPT !.pc = "scanned", !.err = ins.err]]
                /\ UNCHANGED <<db, now, calls>>
           ELSE /\ posts' = [posts EXCEPT ![r] =
                       [@ EXCEPT !.pc = "scanned", !.user = Scanned(user, ins.row)]]
                /\ db' = [db EXCEPT ![shard] = ins.tbl]
                /\ now' = now + 1
                /\ calls' = Disturbed(calls)
    /\ UNCHANGED <<pc, sm, pinged, up, nreq, routeLog, touched, resp, created, attempts>>
    /\ UNCHANGED benchVars

\* lines 108-117: 500 with err.Error(), or 201 with the user and shard_used
createUserRespond(r) ==
    /\ posts[r].pc = "scanned"
    /\ LET user == posts[r].user
       IN  IF posts[r].err # ""
           THEN /\ posts' = [posts EXCEPT ![r] =
                       [@ EXCEPT !.pc = "done",
                                 !.resp = Response(r, "createUser", 500, user.user_id,
                                                   NoUser, 0 - 1, posts[r].err)]]
                /\ created' = created
           ELSE /\ posts' = [posts EXCEPT ![r] =
                       [@ EXCEPT !.pc = "done",
                                 !.resp = Response(r, "createUser", 201, user.user_id, user,
                                                   GoRem(user.user_id, Len(sm)), "")]]
                /\ created' = [created EXCEPT ![user.user_id] =
                       [done |-> TRUE, user |-> user, shard |-> posts[r].shard]]
    /\ UNCHANGED <<pc, sm, pinged, up, db, now, nreq, routeLog, touched, resp, calls, attempts>>
    /\ UNCHANGED benchVars

\* the bodies posted side by side: a key the sample data holds and the new
\* keys, under one name, with either email
ServingBodies ==
    {b \in Bodies : ~b.valid \/ (b.user.user_id \in ({1} \cup (11 .. MaxNew))
                                    /\ b.user.name = "Ann")}

\* listAllUsers calls share nothing with each other, so one slot is served
\* while the createUser handlers run
ServingCalls == {1}

NextServing ==
    \/ \E r \in PostIds, body \in ServingBodies : createUserBind(r, body)
    \/ \E r \in PostIds : createUserQuery(r)
    \/ \E r \in PostIds : createUserRespond(r)
    \/ \E c \in ServingCalls : listAllUsersBegin(c)
    \/ \E c \in ServingCalls : listAllUsersQuery(c)
    \/ \E c \in ServingCalls : listAllUsersRespond(c)

SpecServing == ServingInit /\ [][NextServing]_vars

\* ----------------------------------------------------------------- properties
\* the shard that owns key k: k mod N, in 0 .. N-1
Owner(k) == k % NumShards

\* the rows of the shards that answer now, shard by shard in index order
RECURSIVE RowsOfUpFrom(_)
RowsOfUpFrom(i) ==
    IF i >= NumShards THEN <<>>
    ELSE (IF up[i] THEN SelectAllUsers(db[i]) ELSE <<>>) \o RowsOfUpFrom(i + 1)

\* the number of records stored on the shards i, i+1, ...
RECURSIVE StoredFrom(_)
StoredFrom(i) == IF i >= NumShards THEN 0 ELSE Cardinality(db[i]) + StoredFrom(i + 1)

\* the rows the shards handed to call c, in the order they were read
RECURSIVE RowsGot(_)
RowsGot(got) == IF Len(got) = 0 THEN <<>> ELSE got[1][2] \o RowsGot(Tail(got))

\* how often row r occurs in the sequence users
Occurrences(users, r) == Cardinality({p \in 1 .. Len(users) : users[p] = r})

\* the shards a listAllUsers body names as having failed
PartialShards(body) ==
    IF "failed_shards" \in DOMAIN body THEN body.failed_shards ELSE {}

\* a call that has answered and whose backends were left alone since it began
Settled(c) == calls[c].pc = "done" /\ calls[c].quiet

\* C1: for every integer key, negative keys included, the shard index that
\* getShardForUser computes satisfies 0 <= index < N.
C1_ShardIndexInRange ==
    routeLog.logged => (0 <= routeLog.shardIndex /\ routeLog.shardIndex < NumShards)

C3_PartialIndicator ==
    \A c \in CallIds :
        (Settled(c) /\ (\E i \in ShardIds : ~up[i]) /\ (\E j \in ShardIds : up[j])) =>
            /\ calls[c].body.users = RowsOfUpFrom(0)
            /\ \A i \in ShardIds : ~up[i] => i \in PartialShards(calls[c].body)

\* C4: if every shard is unavailable during a listAllUsers call, the call
\* fails; it does not answer with a success.
C4_AllDownFails ==
    \A c \in CallIds :
        (Settled(c) /\ \A i \in ShardIds : ~up[i]) => calls[c].status # 200

\* C5: a createUser whose key already exists on the owning shard answers with
\* an error, and no table changes: the stored record is not overwritten.
C5_DuplicateKeyRejected ==
    [][(/\ nreq' = nreq + 1
        /\ resp'.seq = nreq'
        /\ resp'.op = "createUser"
        /\ resp'.status # 400
        /\ \E r \in db[Owner(resp'.key)] : r.user_id = resp'.key)
       => (resp'.status = 500 /\ resp'.user = NoUser /\ db' = db)]_vars

C5_Witness ==
    /\ resp.op = "createUser"
    /\ resp.error = "duplicate key users_pkey"
    /\ created[resp.key].done
    /\ created[resp.key].user \in db[Owner(resp.key)]

\* C6: for the fixed shard count N the index logged for a key is Go's
\* userID % N and nothing else: it is the same whatever creates, reads, list
\* calls and shard failures came before.
C6_RoutingDeterministic ==
    routeLog.logged =>
        routeLog.shardIndex =
            (IF routeLog.userID >= 0 THEN routeLog.userID % NumShards
             ELSE 0 - ((0 - routeLog.userID) % NumShards))

C6_Witness ==
    /\ routeLog.logged
    /\ nreq = MaxRequests
    /\ created[routeLog.userID].done
    /\ resp.op = "getUser"
    /\ \E i \in ShardIds : ~up[i]

\* C7: each of several concurrent listAllUsers calls returns exactly the rows
\* that the shards handed to that call, every row once and in the order read;
\* every shard either answered the call once or is in its error log.
C7_CallConsistent ==
    \A c \in CallIds :
        calls[c].pc = "done" =>
            /\ calls[c].body.users = RowsGot(calls[c].got)
            /\ calls[c].body.count = Len(calls[c].body.users)
            /\ {calls[c].got[p][1] : p \in 1 .. Len(calls[c].got)} \cup calls[c].errs
                   = ShardIds
            /\ Len(calls[c].got) + Cardinality(calls[c].errs) = NumShards

C7_Witness ==
    /\ \A c \in {1, 2} : calls[c].pc = "done" /\ Len(calls[c].got) = NumShards
    /\ calls[1].body.users # <<>>

\* C8: start-up is all or nothing: a ShardManager exists, and requests are
\* served, only if every shard was opened and pinged; after a failed open or
\* ping the process has ended with no ShardManager and has served nothing.
C8_AllOrNothing ==
    /\ (sm # <<>> \/ nreq > 0 \/ pc = "serving") =>
           (pinged = ShardIds /\ Len(sm) = NumShards)
    /\ pc = "exit" => (sm = <<>> /\ nreq = 0 /\ pinged # ShardIds)

C8_Witness ==
    /\ pc = "exit"
    /\ pinged = {0}
    /\ sm = <<>>

\* C9: with all shards available a listAllUsers call returns every record
\* stored on every shard exactly once, and its count is the length of the
\* returned sequence and the number of records stored across the shards.
C9_ListComplete ==
    \A c \in CallIds :
        (Settled(c) /\ \A i \in ShardIds : up[i]) =>
            /\ calls[c].status = 200
            /\ calls[c].body.count = Len(calls[c].body.users)
            /\ calls[c].body.count = StoredFrom(0)
            /\ \A i \in ShardIds : \A r \in db[i] :
                  Occurrences(calls[c].body.users, r)
                      = Cardinality({j \in ShardIds : r \in db[j]})

C9_Witness ==
    \E c \in CallIds : \E k \in InputKeys :
        /\ Settled(c)
        /\ \A i \in ShardIds : up[i]
        /\ created[k].done
        /\ Occurrences(calls[c].body.users, created[k].user) = 1

\* C10: the shards hold disjoint subsets: every stored record with key k is
\* on shard k mod N and on no other shard.
C10_DisjointPlacement ==
    \A i \in ShardIds : \A r \in db[i] : i = Owner(r.user_id)

\* the step is the createUser request answered by resp'
CreateStep == nreq' = nreq + 1 /\ resp'.seq = nreq' /\ resp'.op = "createUser"

\* the step is the getUser request answered by resp'
GetStep == nreq' = nreq + 1 /\ resp'.seq = nreq' /\ resp'.op = "getUser"

\* the step is a step of a listAllUsers call
ListStep == \E c \in CallIds : calls'[c].pc # calls[c].pc \/ calls'[c].i # calls[c].i

\* C11: when the shard selected for a createUser is unavailable or rejects
\* the insert, the call answers with an error after exactly one insert
\* attempt, sent to that shard, and no table of any shard changes.
C11_NoFailoverNoRetry ==
    [][(CreateStep /\ resp'.status # 400 /\ GoRem(resp'.key, NumShards) \in ShardIds)
       => LET shard == GoRem(resp'.key, NumShards)
          IN  /\ ~up[shard] => resp'.status = 500
              /\ resp'.status # 201 =>
                    /\ resp'.status = 500
                    /\ resp'.user = NoUser
                    /\ attempts' = 1
                    /\ touched' = {shard}
                    /\ db' = db]_vars

C11_Witness ==
    /\ resp.op = "createUser"
    /\ resp.status = 500
    /\ resp.error = "connection refused"
    /\ attempts = 1
    /\ ~up[Owner(resp.key)]
    /\ \E j \in ShardIds : up[j]

\* C12: getUser of key k answers NotFound exactly when the owning shard
\* k mod N answers and holds no record with key k; when that shard is
\* unavailable it answers with an error after one attempt sent to that shard.
C12_NotFoundExactly ==
    [][(GetStep /\ resp'.status # 400)
       => LET k == resp'.key
              owner == Owner(k)
          IN  /\ resp'.status = 404 <=> (up[owner] /\ SelectUser(db[owner], k) = {})
              /\ ~up[owner] =>
                    (resp'.status = 500 /\ attempts' = 1 /\ touched' = {owner})]_vars

\* C13: every failure of getUser, createUser and listAllUsers reaches the
\* caller tagged with the index of the shard involved, and is never turned
\* into a success.
C13_FailuresTagged ==
    /\ (resp.op \in {"getUser", "createUser"} /\ resp.status = 500 /\ touched # {}) =>
           resp.shard_used \in touched
    /\ \A c \in CallIds :
           (calls[c].pc = "done" /\ calls[c].errs # {}) => calls[c].status # 200

\* C14: getUser and listAllUsers are read-only: whatever they answer, the
\* stored records of every shard are those stored before the step.
C14_ReadsChangeNothing ==
    [][(GetStep \/ ListStep) => db' = db]_vars

C14_Witness ==
    /\ resp.op = "getUser"
    /\ resp.status = 404
    /\ attempts = 1
    /\ \E c \in CallIds : calls[c].pc = "done"

\* C15: listAllUsers answers only after the query of every configured shard
\* has finished, with rows or with an error.
C15_JoinBeforeResponse ==
    [][\A c \in CallIds :
          (calls[c].pc = "loop" /\ calls'[c].pc = "done") =>
              /\ calls[c].i = NumShards
              /\ \A i \in ShardIds :
                    \/ i \in calls[c].errs
                    \/ \E p \in 1 .. Len(calls[c].got) : calls[c].got[p][1] = i]_vars

C15_Witness ==
    \E c \in CallIds :
        /\ calls[c].pc = "done"
        /\ calls[c].errs = {0}
        /\ Len(calls[c].got) = 1

\* C16: for every successful getUser and createUser the shard_used of the
\* response is the index of the shard the query was sent to.
C16_ShardUsedIsReal ==
    (resp.op \in {"getUser", "createUser"} /\ resp.status \in {200, 201}) =>
        touched = {resp.shard_used}

C16_Witness ==
    /\ resp.op = "createUser"
    /\ resp.status = 201
    /\ resp.shard_used = 1
    /\ touched = {1}


\* ------------------------------------------------ benchmark property helpers
\* goroutines that hold a semaphore slot: past the send, before the receive
Holders ==
    {w \in DOMAIN workers : workers[w].pc \in {"acquired", "opened", "finished", "locked", "counted"}}

\* goroutines whose database operation has ended
Ended ==
    {w \in DOMAIN workers : workers[w].pc \in {"finished", "locked", "counted", "released", "done"}}

Counted(r) == r.Successful + r.Errors

\* C17: while benchmarkNonPool or benchmarkWithPool runs, the goroutines that
\* hold a semaphore slot (and so may be executing against the database) number
\* at most config.Concurrency, and the channel holds one token for each
C17_SemaphoreBound ==
    bpc \in {"spawn", "wait", "returned"} =>
        /\ Cardinality(Holders) <= config.Concurrency
        /\ sem = Cardinality(Holders)

C17_Witness ==
    /\ bpc \in {"spawn", "wait"}
    /\ config.Concurrency = 2
    /\ Cardinality(Holders) = 2
    /\ \E w \in DOMAIN workers : workers[w].pc = "spawned"

\* C18: in the non-pooled benchmark an operation that opened a connection uses
\* a handle no other operation uses, the handle is closed once the operation
\* has ended, and no handle is open when benchmarkNonPool has returned
C18_OwnConnectionClosed ==
    /\ \A w \in DOMAIN workers :
          /\ workers[w].pc = "opened" => workers[w].db \in handles
          /\ w \in Ended => workers[w].db \notin handles
          /\ \A v \in DOMAIN workers :
                (v # w /\ workers[w].db # 0) => workers[v].db # workers[w].db
    /\ (bench = "nonpool" /\ bpc = "returned") => handles = {}

C18_Witness ==
    /\ bench = "nonpool"
    /\ bpc = "returned"
    /\ handles = {}
    /\ Cardinality({w \in DOMAIN workers : workers[w].db # 0}) >= 2

\* C19 as stated: when benchmarkNonPool has returned, and when
\* benchmarkWithPool has returned after creating its pool, Successful + Errors
\* of the result equals config.Operations
C19_CountsAddUp ==
    /\ Len(results) >= 1 => Counted(results[1]) = config.Operations
    /\ (Len(results) = 2 /\ pool = "closed") => Counted(results[2]) = config.Operations

\* C19 amended: the sum equals the number of goroutines the loop started, which
\* is config.Operations when that is not negative and zero otherwise
C19_CountsAddUpNonNegative ==
    LET started == IF config.Operations >= 0 THEN config.Operations ELSE 0
    IN  /\ Len(results) >= 1 => Counted(results[1]) = started
        /\ (Len(results) = 2 /\ pool = "closed") => Counted(results[2]) = started

C19_Witness ==
    /\ Len(results) = 2
    /\ pool = "closed"
    /\ config.Operations = 3
    /\ results[1].Successful >= 2
    /\ results[2].Errors >= 2

\* C20: with Operations >= 0 and Concurrency >= 0 the benchmarks never get
\* stuck: until benchmarkWithPool has returned, some step of the main
\* goroutine or of a worker goroutine can be taken
C20_NoDeadlock ==
    (config.Operations >= 0 /\ config.Concurrency >= 0) =>
        \/ bench = "pool" /\ bpc = "returned"
        \/ ENABLED NextBench


\* C21: in benchmarkWithPool the pool is created once, before any goroutine is
\* started; every pool.Execute runs on the open pool; the pool is closed only
\* when every started operation has finished; and when the creation fails no
\* operation runs and the result is Errors = 1, Successful = 0
C21_PoolLifetime ==
    [][/\ pool' # pool =>
             \/ pool = "none" /\ pool' = "open" /\ workers' = <<>> /\ spawned' = 0
             \/ /\ pool = "open" /\ pool' = "closed"
                /\ Len(workers) = spawned
                /\ \A w \in DOMAIN workers : workers[w].pc = "done"
       /\ \A w \in DOMAIN workers :
             (bench = "pool" /\ w \in DOMAIN workers' /\ workers'[w].pc # workers[w].pc
                 /\ workers[w].pc \in {"spawned", "acquired"})
             => pool = "open" /\ pool' = "open"
       /\ (bench' = "pool" /\ pool' = "none") =>
             /\ workers' = <<>>
             /\ bpc' = "returned"
             /\ Len(results') = 2
             /\ results'[2].Errors = 1 /\ results'[2].Successful = 0]_vars

C21_Witness ==
    /\ bench = "pool"
    /\ pool = "closed"
    /\ bpc = "returned"
    /\ Len(workers) = 3
    /\ \A w \in DOMAIN workers : workers[w].pc = "done"


\* -------------------------------------------------- concurrent handler helpers
\* the createUser handlers that have answered a request for key k
Answered(k) ==
    {r \in PostIds : posts[r].pc = "done" /\ posts[r].resp.status # 400
                     /\ posts[r].resp.key = k}

\* C22: of the createUser handlers that ran side by side for one key at most
\* one answered 201 and every other one answered 500 with an error; the owning
\* shard never holds two records for the key, and when a handler succeeded
\* the one record is the user that handler returned
C22_OneWinner ==
    \A q \in PostIds :
        LET k == posts[q].user.user_id
            won == {r \in Answered(k) : posts[r].resp.status = 201}
            stored == SelectUser(db[Owner(k)], k)
        IN  /\ Cardinality(won) <= 1
            /\ \A r \in Answered(k) \ won :
                  posts[r].resp.status = 500 /\ posts[r].resp.error # ""
            /\ Cardinality(stored) <= 1
            /\ \A r \in won : stored = {posts[r].resp.user}

\* the handler bound first lost to the one bound after it: both were in flight
\* when the second one's INSERT ran
C22_Witness ==
    /\ posts[1].pc = "done"
    /\ posts[2].pc = "done"
    /\ posts[1].resp.key = 11
    /\ posts[2].resp.key = 11
    /\ posts[1].resp.status = 500
    /\ posts[1].resp.error = "duplicate key users_pkey"
    /\ posts[2].resp.status = 201
    /\ posts[1].user.email # posts[2].user.email

\* the shards that answered call c
Answering(c) == ShardIds \ calls[c].errs

\* C23: a listAllUsers call that ran while createUser handlers were in flight
\* returns every record an answering shard held before the call began (the
\* records whose created_at precedes the backends' clock at the beginning of
\* the call; nothing is ever deleted) and returns only records that are
\* stored on an answering shard
C23_ListUnderCreates ==
    \A c \in CallIds :
        calls[c].pc = "done" =>
            /\ \A i \in Answering(c) : \A r \in db[i] :
                  r.created_at < calls[c].t0 => Occurrences(calls[c].body.users, r) >= 1
            /\ \A p \in 1 .. Len(calls[c].body.users) :
                  \E i \in Answering(c) : calls[c].body.users[p] \in db[i]

\* a record created while the call was in flight is in its result, a handler
\* for the same key is still in flight
C23_Witness ==
    \E c \in CallIds : \E r \in db[1] :
        /\ calls[c].pc = "done"
        /\ 1 \in Answering(c)
        /\ r.created_at >= calls[c].t0
        /\ Occurrences(calls[c].body.users, r) = 1
        /\ \E q \in PostIds : posts[q].pc = "routed" /\ posts[q].user.user_id = r.user_id

====
